---- MODULE Spec2Model ----
(***************************************************************************)
(* create-py-app (src/create_py_app/main.py): the `create` command, which  *)
(* asks five questions, renders main.py and pyproject.toml from fixed      *)
(* templates and runs uv, ruff and git in the new project directory.       *)
(*                                                                         *)
(* Python str values that the code inspects (labels, names, the version)   *)
(* are sequences of one-character strings, so that `in`, `replace` and     *)
(* truthiness are computed as Python computes them.  A rendered file is a  *)
(* sequence of lines, each line a TLA+ string.                             *)
(***************************************************************************)
EXTENDS Integers, Sequences, FiniteSets, TLC

\* ---------------------------------------------------------------- strings

\* Python's None, as returned by a cancelled questionary prompt and as the
\* default of the project_name argument.  No str value equals it.
PyNone == <<"<None>">>

Vanilla == <<"V", "a", "n", "i", "l", "l", "a">>
FastAPI == <<"F", "a", "s", "t", "A", "P", "I">>
Flask == <<"F", "l", "a", "s", "k">>
Streamlit == <<"S", "t", "r", "e", "a", "m", "l", "i", "t">>
Typer == <<"T", "y", "p", "e", "r">>
NiceGUI == <<"N", "i", "c", "e", "G", "U", "I">>

\* choices of questionary.select("Select a framework")
FrameworkChoices == <<Vanilla, FastAPI, Flask, Streamlit, Typer, NiceGUI>>

RuffLabel == <<"R", "u", "f", "f", " ", "(", "F", "a", "s", "t", ",", " ",
               "R", "e", "c", "o", "m", "m", "e", "n", "d", "e", "d", ")">>
NoneLabel == <<"N", "o", "n", "e">>

\* choices of questionary.select("Select a linter")
LinterChoices == <<RuffLabel, NoneLabel>>

TyLabel == <<"T", "y", " ", "(", "A", "s", "t", "r", "a", "l", " ", "-", " ",
             "F", "a", "s", "t", ")">>
MypyLabel == <<"M", "y", "p", "y", " ", "(", "S", "t", "a", "n", "d", "a",
               "r", "d", ")">>

\* choices of questionary.select("Select a type checker")
TypeChoices == <<TyLabel, MypyLabel, NoneLabel>>

\* the name used when the name prompt is answered with an empty line
DefaultName == <<"m", "y", "-", "p", "y", "-", "a", "p", "p">>

Range(s) == {s[i] : i \in 1..Len(s)}

\* Python `sub in s` on str: sub occurs in s as a contiguous substring.
Contains(sub, s) ==
    \E i \in 1..(Len(s) - Len(sub) + 1) : SubSeq(s, i, i + Len(sub) - 1) = sub

\* Python s.replace(old, "") for a one-character old.
RECURSIVE Remove(_, _)
Remove(s, old) ==
    IF s = <<>> THEN <<>>
    ELSE IF Head(s) = old THEN Remove(Tail(s), old)
    ELSE <<Head(s)>> \o Remove(Tail(s), old)

\* The text of a str value, as an f-string interpolates it.
RECURSIVE Join(_)
Join(s) == IF s = <<>> THEN "" ELSE Head(s) \o Join(Tail(s))

Digit(d) == <<"0", "1", "2", "3", "4", "5", "6", "7", "8", "9">>[d + 1]

\* str(n) for a natural number, as an f-string formats an int.
RECURSIVE Str(_)
Str(n) == IF n < 10 THEN <<Digit(n)>> ELSE Str(n \div 10) \o <<Digit(n % 10)>>

\* sys.version_info (major, minor) -> "MAJOR.MINOR"
get_system_python(version_info) ==
    Str(version_info[1]) \o <<".">> \o Str(version_info[2])

\* ------------------------------------------------------------ generate_toml

\* mutant: `if linter:` in place of `"Ruff" in linter`; the label "None" is
\* a non-empty str
HasRuffTruthy(linter) == linter # <<>>

\* `"Ruff" in linter`
HasRuff(linter) == Contains(<<"R", "u", "f", "f">>, linter)
\* `"Ty" in type_checker`
HasTy(type_checker) == Contains(<<"T", "y">>, type_checker)
\* `"Mypy" in type_checker`
HasMypy(type_checker) == Contains(<<"M", "y", "p", "y">>, type_checker)

\* ruff_ver = f"py{py_ver.replace('.', '')}"
ruff_ver(py_ver) == "py" \o Join(Remove(py_ver, "."))

RuffBlock(py_ver) ==
    << "",
       "[tool.ruff]",
       "line-length = 88",
       "target-version = \"" \o ruff_ver(py_ver) \o "\"",
       "",
       "[tool.ruff.lint]",
       "select = [\"E\", \"F\", \"I\", \"N\", \"UP\", \"B\"]",
       "fixable = [\"ALL\"]",
       "",
       "[tool.ruff.format]",
       "quote-style = \"double\"" >>

TyBlock ==
    << "",
       "[tool.ty]",
       "# Ty defaults" >>

MypyBlock ==
    << "",
       "[tool.mypy]",
       "strict = true",
       "ignore_missing_imports = true",
       "disallow_untyped_defs = true" >>

\* the if / elif chain over the type checker
TypeBlock(type_checker) ==
    IF HasTy(type_checker) THEN TyBlock
    ELSE IF HasMypy(type_checker) THEN MypyBlock
    ELSE <<>>

\* the if / elif chain that picks the `dev` task's command
dev_cmd(framework) ==
    IF framework = Vanilla THEN "python -m watchfiles 'python main.py' ."
    ELSE IF framework = FastAPI THEN "python -m uvicorn main:app --reload"
    ELSE IF framework = Flask THEN "python -m flask --app main run --debug"
    ELSE IF framework = Streamlit THEN "python -m streamlit run main.py"
    ELSE IF framework = Typer THEN "python main.py --help"
    ELSE IF framework = NiceGUI THEN "python main.py"
    ELSE ""

PoeBlock(framework) ==
    << "",
       "[tool.poe.tasks]",
       "dev = \"" \o dev_cmd(framework) \o "\"" >>

\* config, as accumulated by the `config +=` statements
TomlConfig(linter, type_checker, py_ver, framework) ==
    (IF HasRuff(linter) THEN RuffBlock(py_ver) ELSE <<>>)
        \o TypeBlock(type_checker)
        \o PoeBlock(framework)

generate_toml(name, linter, type_checker, py_ver, framework) ==
    << "[project]",
       "name = \"" \o Join(name) \o "\"",
       "version = \"0.1.0\"",
       "description = \"Project generated with create-py-app\"",
       "readme = \"README.md\"",
       "requires-python = \">=" \o Join(py_ver) \o "\"",
       "dependencies = []",
       "",
       "[build-system]",
       "requires = [\"hatchling\"]",
       "build-backend = \"hatchling.build\"",
       "",
       "[tool.hatch.build.targets.wheel]",
       "packages = [\".\"]",
       "" >>
        \o TomlConfig(linter, type_checker, py_ver, framework)
        \o << "" >>

\* --------------------------------------------------------- generate_main_py

VanillaTemplate(name) ==
    << "def main() -> None:",
       "    print(\"Hello from " \o Join(name) \o "!\")",
       "",
       "if __name__ == \"__main__\":",
       "    main()" >>

FastAPITemplate ==
    << "from fastapi import FastAPI",
       "",
       "app = FastAPI()",
       "",
       "@app.get(\"/\")",
       "def main():",
       "    return {\"Hello\": \"World\", \"Framework\": \"FastAPI\"}" >>

FlaskTemplate ==
    << "from flask import Flask",
       "",
       "app = Flask(__name__)",
       "",
       "@app.route(\"/\")",
       "def main():",
       "    return {\"Hello\": \"World\", \"Framework\": \"Flask\"}" >>

StreamlitTemplate ==
    << "import streamlit as st",
       "",
       "st.write(\"Welcome to your new Streamlit app!\")" >>

\* an f-string with no replacement field: the name does not appear
TyperTemplate ==
    << "import typer",
       "",
       "app = typer.Typer()",
       "",
       "@app.command()",
       "def main(name: str):",
       "    print(\"Welcome to your new Typer app!\")",
       "",
       "if __name__ == \"__main__\":",
       "    main()" >>

\* an f-string: {name} is replaced, and {"__main__", "__mp_main__"} is a
\* replacement field too, formatted as the tuple it evaluates to
NiceGUITemplate(name) ==
    << "from nicegui import ui",
       "",
       "def main():",
       "    ui.label('Hello from " \o Join(name) \o "!')",
       "    ui.button('Click me!', on_click=lambda: ui.notify('You clicked me!'))",
       "    ui.run(reload=True)",
       "",
       "if __name__ in ('__main__', '__mp_main__'):",
       "    main()" >>

\* mutant: the Flask branch returns the FastAPI text
generate_main_py_copied(name, framework) ==
    IF framework = Vanilla THEN VanillaTemplate(name)
    ELSE IF framework = FastAPI THEN FastAPITemplate
    ELSE IF framework = Flask THEN FastAPITemplate
    ELSE IF framework = Streamlit THEN StreamlitTemplate
    ELSE IF framework = Typer THEN TyperTemplate
    ELSE IF framework = NiceGUI THEN NiceGUITemplate(name)
    ELSE <<>>

generate_main_py(name, framework) ==
    IF framework = Vanilla THEN VanillaTemplate(name)
    ELSE IF framework = FastAPI THEN FastAPITemplate
    ELSE IF framework = Flask THEN FlaskTemplate
    ELSE IF framework = Streamlit THEN StreamlitTemplate
    ELSE IF framework = Typer THEN TyperTemplate
    ELSE IF framework = NiceGUI THEN NiceGUITemplate(name)
    ELSE <<>>

\* ---------------------------------------------------------- dependency plan

\* deps, as built by the if / elif chain over the framework
RuntimeDeps(framework) ==
    IF framework = FastAPI THEN <<"fastapi", "uvicorn[standard]">>
    ELSE IF framework = Flask THEN <<"flask">>
    ELSE IF framework = Streamlit THEN <<"streamlit">>
    ELSE IF framework = Typer THEN <<"typer">>
    ELSE IF framework = NiceGUI THEN <<"nicegui">>
    ELSE <<>>

\* dev_deps, as built by the appends
DevDeps(linter_choice, type_choice, framework) ==
    <<"poethepoet">>
        \o (IF HasRuff(linter_choice) THEN <<"ruff">> ELSE <<>>)
        \o (IF HasTy(type_choice) THEN <<"ty">> ELSE <<>>)
        \o (IF HasMypy(type_choice) THEN <<"mypy">> ELSE <<>>)
        \o (IF framework = Vanilla THEN <<"watchfiles">> ELSE <<>>)

\* ------------------------------------------------------------------- state

\* the bool answers of questionary.confirm
PyTrue == <<"<True>">>
PyFalse == <<"<False>">>

\* a name typed at the prompt or given as the argument
Demo == <<"d", "e", "m", "o">>

\* what the user types at the name prompt: nothing, or a name
NameInputs == {<<>>, Demo}

\* sys.version_info of the interpreter that runs the tool
VersionInfos == {<<3, 9>>, <<3, 12>>}

\* how often another process may create or remove the entry at the path
MaxForeign == 1

\* a file that does not exist
Absent == <<"<absent>">>

\* the project directory's files, none of them there
NoFiles == [hello |-> FALSE, main |-> Absent, toml |-> Absent,
            gitignore |-> Absent]

\* what `uv init` leaves behind, as far as the tool reads or overwrites it
UvMain == <<"def main():", "    print(\"Hello from uv!\")">>
UvToml == <<"[project]", "dependencies = []">>
UvGitignore == <<"# Python-generated files", "__pycache__/", ".venv">>

\* the lines the tool appends to .gitignore
IgnoreLines == <<".ruff_cache", ".mypy_cache", "__pycache__">>

VARIABLES
    pc,             \* where `create` stands
    project_name,   \* the argument, then the resolved name
    git,            \* the --git / --no-git option
    detected_ver,   \* get_system_python()
    framework, linter_choice, type_choice, should_install,
    entry,          \* the filesystem entry at Path(project_name):
                    \*   "absent", "foreign" (a file or directory this run
                    \*   did not create), "dangling" (a symlink this run did
                    \*   not create, whose target does not exist), "project"
                    \*   (the directory this run's mkdir created)
    files,          \* the files in the directory at Path(project_name)
    log,            \* the filesystem changes made and children spawned
    asked,          \* the prompts asked
    exit_code,      \* the process's exit status (-1 while it runs)
    raised,         \* the exception that ended the run, or "none"
    failed_at,      \* where `create` stood when it was raised
    summary,        \* whether "Done! Now run:" was printed
    rc_failed,      \* whether a child whose status is unchecked returned non-zero
    last_status,    \* how the latest pipeline step ended: "ok", "nonzero"
                    \*   (the child's status) or "raised"
    guard_saw,      \* the entry at the time of path.exists()
    mkdir_saw,      \* the entry at the time of path.mkdir()
    cancelled_at,   \* the prompt that returned None
    foreign_events, \* how often another process changed the entry
    gen_call,       \* arguments of a direct call of the two generators
    gen_ret         \* what the generators returned

answers == <<framework, linter_choice, type_choice, should_install>>
config == <<project_name, git, detected_ver>>
outcome == <<exit_code, raised, failed_at, summary>>
status == <<rc_failed, last_status>>
ghosts == <<guard_saw, mkdir_saw, cancelled_at>>
gen == <<gen_call, gen_ret>>
run == <<pc, config, answers, entry, files, log, asked, outcome, status,
         ghosts, foreign_events>>
vars == <<run, gen>>

NoCall == [name |-> <<>>, other |-> <<>>, framework |-> <<>>,
           other_framework |-> <<>>, linter |-> <<>>, type_checker |-> <<>>,
           py_ver |-> <<>>]
NoRet == [toml |-> Absent, main |-> Absent, main_other |-> Absent]

\* the state when `create` is entered
RunInit ==
    /\ pc = "ask_name"
    /\ project_name \in {PyNone, <<>>, Demo}
    /\ git \in BOOLEAN
    /\ detected_ver \in {get_system_python(v) : v \in VersionInfos}
    /\ framework = PyNone
    /\ linter_choice = PyNone
    /\ type_choice = PyNone
    /\ should_install = PyNone
    /\ entry \in {"absent", "foreign", "dangling"}
    /\ files = NoFiles
    /\ log = <<>>
    /\ asked = <<>>
    /\ exit_code = -1
    /\ raised = "none"
    /\ failed_at = "none"
    /\ summary = FALSE
    /\ rc_failed = FALSE
    /\ last_status = "none"
    /\ guard_saw = "unchecked"
    /\ mkdir_saw = "unattempted"
    /\ cancelled_at = "none"
    /\ foreign_events = 0

Init == RunInit /\ gen_call = NoCall /\ gen_ret = NoRet

\* ------------------------------------------------------------- termination

\* raise typer.Exit(code): the process ends with that status
Exit(code) ==
    /\ pc' = "done"
    /\ exit_code' = code
    /\ UNCHANGED <<raised, failed_at, summary>>

\* an exception nothing catches: traceback, status 1
Raise(exc) ==
    /\ pc' = "done"
    /\ exit_code' = 1
    /\ raised' = exc
    /\ failed_at' = pc
    /\ UNCHANGED summary

Continue(next) ==
    /\ pc' = next
    /\ UNCHANGED outcome

\* ------------------------------------------------------------------ prompts

\* `not project_name`: None and "" are falsy
Falsy(s) == s = PyNone \/ s = <<>>

\* lines 184-193: the name prompt, asked only without a usable argument
AskName ==
    /\ pc = "ask_name"
    /\ IF Falsy(project_name)
       THEN \E a \in NameInputs \cup {PyNone} :
              /\ asked' = Append(asked, "name")
              /\ IF a = PyNone
                 THEN /\ Exit(0)
                      /\ cancelled_at' = "name"
                      /\ UNCHANGED project_name
                 ELSE /\ Continue("guard")
                      /\ project_name' = IF a = <<>> THEN DefaultName ELSE a
                      /\ UNCHANGED cancelled_at
       ELSE /\ Continue("guard")
            /\ UNCHANGED <<project_name, asked, cancelled_at>>
    /\ UNCHANGED <<git, detected_ver, answers, entry, files, log, status,
                   guard_saw, mkdir_saw, foreign_events, gen>>

\* Path.exists(): follows symbolic links, so a dangling link does not exist
exists(e) == e \in {"foreign", "project"}

\* lines 195-199: the directory guard
Guard ==
    /\ pc = "guard"
    /\ guard_saw' = entry
    /\ IF exists(entry) THEN Exit(1) ELSE Continue("ask_framework")
    /\ UNCHANGED <<config, answers, entry, files, log, asked, status,
                   mkdir_saw, cancelled_at, foreign_events, gen>>

\* mutant: the `is None` test after the prompt is missing
AskIgnoringNone(prompt, next, a) ==
    /\ asked' = Append(asked, prompt)
    /\ Continue(next)
    /\ cancelled_at' = IF a = PyNone THEN prompt ELSE cancelled_at
    /\ UNCHANGED <<config, entry, files, log, status, guard_saw, mkdir_saw,
                   foreign_events, gen>>

\* a questionary prompt and the `is None` test after it
Ask(prompt, next, a) ==
    /\ asked' = Append(asked, prompt)
    /\ IF a = PyNone
       THEN Exit(0) /\ cancelled_at' = prompt
       ELSE Continue(next) /\ UNCHANGED cancelled_at
    /\ UNCHANGED <<config, entry, files, log, status, guard_saw, mkdir_saw,
                   foreign_events, gen>>

\* lines 201-209
AskFramework ==
    /\ pc = "ask_framework"
    /\ \E a \in Range(FrameworkChoices) \cup {PyNone} :
         /\ Ask("framework", "ask_linter", a)
         /\ framework' = a
    /\ UNCHANGED <<linter_choice, type_choice, should_install>>

\* lines 211-219
AskLinter ==
    /\ pc = "ask_linter"
    /\ \E a \in Range(LinterChoices) \cup {PyNone} :
         /\ Ask("linter", "ask_type", a)
         /\ linter_choice' = a
    /\ UNCHANGED <<framework, type_choice, should_install>>

\* lines 221-229
AskType ==
    /\ pc = "ask_type"
    /\ \E a \in Range(TypeChoices) \cup {PyNone} :
         /\ Ask("type", "ask_install", a)
         /\ type_choice' = a
    /\ UNCHANGED <<framework, linter_choice, should_install>>

\* lines 231-238
AskInstall ==
    /\ pc = "ask_install"
    /\ \E a \in {PyTrue, PyFalse, PyNone} :
         /\ Ask("install", "mkdir", a)
         /\ should_install' = a
    /\ UNCHANGED <<framework, linter_choice, type_choice>>

\* ----------------------------------------------------------------- pipeline

\* line 283: `if should_install`, then line 284: `if deps`
AfterToml ==
    IF should_install = PyTrue
    THEN IF RuntimeDeps(framework) # <<>> THEN "uv_add" ELSE "uv_add_dev"
    ELSE "summary"

\* line 288: `if dev_deps`
AfterAdd ==
    IF DevDeps(linter_choice, type_choice, framework) # <<>>
    THEN "uv_add_dev" ELSE "uv_sync"

\* line 299: `if git`, inside the `if should_install` block
AfterFormat == IF git THEN "git_init" ELSE "summary"

\* line 295: `if "Ruff" in linter_choice`
AfterSync == IF HasRuff(linter_choice) THEN "ruff_format" ELSE AfterFormat

\* mutant: the ignore lines are appended after `git add`
NextStepIgnoreAfterAdd(step) ==
    CASE step = "mkdir" -> "uv_init"
      [] step = "uv_init" -> "rm_hello"
      [] step = "rm_hello" -> "write_main"
      [] step = "write_main" -> "write_toml"
      [] step = "write_toml" -> AfterToml
      [] step = "uv_add" -> AfterAdd
      [] step = "uv_add_dev" -> "uv_sync"
      [] step = "uv_sync" -> AfterSync
      [] step = "ruff_format" -> AfterFormat
      [] step = "git_init" -> "git_add"
      [] step = "git_add" -> "gitignore"
      [] step = "gitignore" -> "git_commit"
      [] step = "git_commit" -> "summary"

\* lines 242-310: the statement that follows each step
NextStep(step) ==
    CASE step = "mkdir" -> "uv_init"
      [] step = "uv_init" -> "rm_hello"
      [] step = "rm_hello" -> "write_main"
      [] step = "write_main" -> "write_toml"
      [] step = "write_toml" -> AfterToml
      [] step = "uv_add" -> AfterAdd
      [] step = "uv_add_dev" -> "uv_sync"
      [] step = "uv_sync" -> AfterSync
      [] step = "ruff_format" -> AfterFormat
      [] step = "git_init" -> "gitignore"
      [] step = "gitignore" -> "git_add"
      [] step = "git_add" -> "git_commit"
      [] step = "git_commit" -> "summary"

\* everything a pipeline step leaves alone besides pc, outcome, log, files,
\* entry and the statuses
StepFrame ==
    UNCHANGED <<config, answers, asked, guard_saw, cancelled_at,
                foreign_events, gen>>

\* the step at pc was carried out; control moves to the next statement
Performed(step) ==
    /\ log' = Append(log, step)
    /\ last_status' = "ok"
    /\ Continue(NextStep(step))
    /\ UNCHANGED rc_failed

\* the call at pc raised before it changed anything
Failed(exc) ==
    /\ Raise(exc)
    /\ last_status' = "raised"
    /\ UNCHANGED <<log, rc_failed>>

\* mutant: path.mkdir(exist_ok=True), which accepts a directory that is there
MkdirExistOk ==
    /\ pc = "mkdir"
    /\ mkdir_saw' = entry
    /\ \/ /\ entry = "absent"
          /\ entry' = "project"
          /\ Performed("mkdir")
       \/ /\ entry = "foreign"
          /\ Continue(NextStep("mkdir"))
          /\ UNCHANGED <<entry, log, status>>
       \/ /\ entry = "dangling"
          /\ Failed("FileExistsError")
          /\ UNCHANGED entry
       \/ /\ entry = "absent"
          /\ Failed("OSError")
          /\ UNCHANGED entry
    /\ UNCHANGED files
    /\ StepFrame

\* mutant: `if not path.exists(): path.mkdir()`
MkdirUnlessExists ==
    /\ pc = "mkdir"
    /\ mkdir_saw' = entry
    /\ IF exists(entry)
       THEN /\ Continue(NextStep("mkdir"))
            /\ UNCHANGED <<entry, log, status>>
       ELSE \/ /\ entry = "absent"
               /\ entry' = "project"
               /\ Performed("mkdir")
            \/ /\ entry # "absent"
               /\ Failed("FileExistsError")
               /\ UNCHANGED entry
    /\ UNCHANGED files
    /\ StepFrame

\* line 242: path.mkdir(), neither parents nor exist_ok.  mkdir(2) fails with
\* EEXIST on any entry, a dangling link included; it can fail for other
\* reasons too (a missing parent, no permission).
Mkdir ==
    /\ pc = "mkdir"
    /\ mkdir_saw' = entry
    /\ \/ /\ entry = "absent"
          /\ entry' = "project"
          /\ Performed("mkdir")
       \/ /\ entry # "absent"
          /\ Failed("FileExistsError")
          /\ UNCHANGED entry
       \/ /\ entry = "absent"
          /\ Failed("OSError")
          /\ UNCHANGED entry
    /\ UNCHANGED files
    /\ StepFrame

\* mutant: `uv init` run without check=True
UvInitUnchecked ==
    /\ pc = "uv_init"
    /\ \/ \E placeholder \in {"hello.py", "main.py"}, ignore \in BOOLEAN :
            /\ files' = [hello |-> placeholder = "hello.py",
                         main |-> IF placeholder = "main.py" THEN UvMain
                                  ELSE files.main,
                         toml |-> UvToml,
                         gitignore |-> IF ignore THEN UvGitignore
                                       ELSE files.gitignore]
            /\ Performed("uv_init")
       \/ /\ log' = Append(log, "uv_init")
          /\ last_status' = "nonzero"
          /\ Continue(NextStep("uv_init"))
          /\ UNCHANGED <<files, rc_failed>>
       \/ /\ Failed("OSError")
          /\ UNCHANGED files
    /\ UNCHANGED <<entry, mkdir_saw>>
    /\ StepFrame

\* line 247: subprocess.run([...], check=True).  A non-zero status raises
\* CalledProcessError; a missing executable raises OSError before any child
\* exists.  On success uv has written its own pyproject.toml, a placeholder
\* (hello.py in older versions, main.py in newer ones) and, outside a
\* repository, a .gitignore.
UvInit ==
    /\ pc = "uv_init"
    /\ \/ \E placeholder \in {"hello.py", "main.py"}, ignore \in BOOLEAN :
            /\ files' = [hello |-> placeholder = "hello.py",
                         main |-> IF placeholder = "main.py" THEN UvMain
                                  ELSE files.main,
                         toml |-> UvToml,
                         gitignore |-> IF ignore THEN UvGitignore
                                       ELSE files.gitignore]
            /\ Performed("uv_init")
       \/ /\ log' = Append(log, "uv_init")
          /\ last_status' = "nonzero"
          /\ Raise("CalledProcessError")
          /\ UNCHANGED <<files, rc_failed>>
       \/ /\ Failed("OSError")
          /\ UNCHANGED files
    /\ UNCHANGED <<entry, mkdir_saw>>
    /\ StepFrame

\* lines 249-250: unlink the placeholder hello.py if it is there
RemoveHello ==
    /\ pc = "rm_hello"
    /\ IF files.hello
       THEN \/ /\ files' = [files EXCEPT !.hello = FALSE]
               /\ Performed("rm_hello")
            \/ /\ Failed("OSError")
               /\ UNCHANGED files
       ELSE /\ Continue(NextStep("rm_hello"))
            /\ UNCHANGED <<files, log, status>>
    /\ UNCHANGED <<entry, mkdir_saw>>
    /\ StepFrame

\* line 252: write_text either writes the file or raises OSError
WriteMain ==
    /\ pc = "write_main"
    /\ \/ /\ files' = [files EXCEPT
                         !.main = generate_main_py(project_name, framework)]
          /\ Performed("write_main")
       \/ /\ Failed("OSError")
          /\ UNCHANGED files
    /\ UNCHANGED <<entry, mkdir_saw>>
    /\ StepFrame

\* lines 279-281
WriteToml ==
    /\ pc = "write_toml"
    /\ \/ /\ files' = [files EXCEPT
                         !.toml = generate_toml(project_name, linter_choice,
                                      type_choice, detected_ver, framework)]
          /\ Performed("write_toml")
       \/ /\ Failed("OSError")
          /\ UNCHANGED files
    /\ UNCHANGED <<entry, mkdir_saw>>
    /\ StepFrame

\* mutant: check=True on every child
SpawnChecked(step) ==
    /\ pc = step
    /\ \/ Performed(step)
       \/ /\ log' = Append(log, step)
          /\ last_status' = "nonzero"
          /\ rc_failed' = TRUE
          /\ Raise("CalledProcessError")
       \/ Failed("OSError")
    /\ UNCHANGED <<entry, files, mkdir_saw>>
    /\ StepFrame

\* subprocess.run([...]) without check: the child's status is not looked at;
\* only a missing executable (OSError, no child spawned) ends the run
Spawn(step) ==
    /\ pc = step
    /\ \/ Performed(step)
       \/ /\ log' = Append(log, step)
          /\ last_status' = "nonzero"
          /\ rc_failed' = TRUE
          /\ Continue(NextStep(step))
       \/ Failed("OSError")
    /\ UNCHANGED <<entry, files, mkdir_saw>>
    /\ StepFrame

\* line 286
UvAdd == Spawn("uv_add")
\* line 290
UvAddDev == Spawn("uv_add_dev")
\* line 293
UvSync == Spawn("uv_sync")
\* line 297
RuffFormat == Spawn("ruff_format")
\* line 301
GitInit == Spawn("git_init")
\* line 304
GitAdd == Spawn("git_add")
\* line 305
GitCommit == Spawn("git_commit")

\* open("a") then write: the file is created if absent, else appended to
AppendLines(content, lines) ==
    IF content = Absent THEN lines ELSE content \o lines

\* lines 302-303
AppendGitignore ==
    /\ pc = "gitignore"
    /\ \/ /\ files' = [files EXCEPT
                         !.gitignore = AppendLines(files.gitignore, IgnoreLines)]
          /\ Performed("gitignore")
       \/ /\ Failed("OSError")
          /\ UNCHANGED files
    /\ UNCHANGED <<entry, mkdir_saw>>
    /\ StepFrame

\* lines 310-312: the summary, then `create` returns and the process exits 0
Summary ==
    /\ pc = "summary"
    /\ pc' = "done"
    /\ summary' = TRUE
    /\ exit_code' = 0
    /\ UNCHANGED <<raised, failed_at, entry, files, log, status, mkdir_saw>>
    /\ StepFrame

\* -------------------------------------------------------------- environment

\* another process creates an entry at the path while `create` runs
ForeignCreate ==
    /\ pc # "done"
    /\ foreign_events < MaxForeign
    /\ entry = "absent"
    /\ entry' \in {"foreign", "dangling"}
    /\ foreign_events' = foreign_events + 1
    /\ UNCHANGED <<pc, config, answers, files, log, asked, outcome, status,
                   ghosts, gen>>

\* another process removes an entry that is not the project's
ForeignRemove ==
    /\ pc # "done"
    /\ foreign_events < MaxForeign
    /\ entry \in {"foreign", "dangling"}
    /\ entry' = "absent"
    /\ foreign_events' = foreign_events + 1
    /\ UNCHANGED <<pc, config, answers, files, log, asked, outcome, status,
                   ghosts, gen>>

Next ==
    \/ AskName
    \/ Guard
    \/ AskFramework
    \/ AskLinter
    \/ AskType
    \/ AskInstall
    \/ Mkdir
    \/ UvInit
    \/ RemoveHello
    \/ WriteMain
    \/ WriteToml
    \/ UvAdd
    \/ UvAddDev
    \/ UvSync
    \/ RuffFormat
    \/ GitInit
    \/ AppendGitignore
    \/ GitAdd
    \/ GitCommit
    \/ Summary
    \/ ForeignCreate
    \/ ForeignRemove

Spec == Init /\ [][Next]_vars

\* ------------------------------------------- the generators, called directly

\* a framework value outside the prompt's choices
Django == <<"D", "j", "a", "n", "g", "o">>

GenNames == {Demo, DefaultName, <<"a">>}
GenFrameworks == Range(FrameworkChoices) \cup {Django}

\* no `create` is running
RunIdle ==
    /\ pc = "idle"
    /\ project_name = PyNone
    /\ git = TRUE
    /\ detected_ver = get_system_python(<<3, 12>>)
    /\ framework = PyNone
    /\ linter_choice = PyNone
    /\ type_choice = PyNone
    /\ should_install = PyNone
    /\ entry = "absent"
    /\ files = NoFiles
    /\ log = <<>>
    /\ asked = <<>>
    /\ exit_code = -1
    /\ raised = "none"
    /\ failed_at = "none"
    /\ summary = FALSE
    /\ rc_failed = FALSE
    /\ last_status = "none"
    /\ guard_saw = "unchecked"
    /\ mkdir_saw = "unattempted"
    /\ cancelled_at = "none"
    /\ foreign_events = 0

\* the arguments: two (name, framework) pairs for generate_main_py, and the
\* first pair with a linter, a type checker and a version for generate_toml
GenInit ==
    /\ RunIdle
    /\ gen_call \in [name : GenNames, other : GenNames,
                     framework : GenFrameworks, other_framework : GenFrameworks,
                     linter : Range(LinterChoices),
                     type_checker : Range(TypeChoices),
                     py_ver : {get_system_python(v) : v \in VersionInfos}]
    /\ gen_ret = NoRet

CallGenerateToml ==
    /\ gen_ret.toml = Absent
    /\ gen_ret' = [gen_ret EXCEPT
                     !.toml = generate_toml(gen_call.name, gen_call.linter,
                                  gen_call.type_checker, gen_call.py_ver,
                                  gen_call.framework)]
    /\ UNCHANGED <<run, gen_call>>

CallGenerateMainPy ==
    /\ gen_ret.main = Absent
    /\ gen_ret' = [gen_ret EXCEPT
                     !.main = generate_main_py(gen_call.name, gen_call.framework),
                     !.main_other = generate_main_py(gen_call.other,
                                        gen_call.other_framework)]
    /\ UNCHANGED <<run, gen_call>>

GenNext ==
    \/ CallGenerateToml
    \/ CallGenerateMainPy

GenSpec == GenInit /\ [][GenNext]_vars

\* ------------------------------------------------------------------- claims

InLog(step) == \E i \in 1..Len(log) : log[i] = step
Times(step) == Cardinality({i \in 1..Len(log) : log[i] = step})

\* the steps that run a child process, and those that change a file
ChildSteps == {"uv_init", "uv_add", "uv_add_dev", "uv_sync", "ruff_format",
               "git_init", "git_add", "git_commit"}
FileSteps == {"rm_hello", "write_main", "write_toml", "gitignore"}
UncheckedSteps == ChildSteps \ {"uv_init"}
GitSteps == {"git_init", "gitignore", "git_add", "git_commit"}

\* the order the pipeline is meant to keep
StepOrder == <<"mkdir", "uv_init", "rm_hello", "write_main", "write_toml",
               "uv_add", "uv_add_dev", "uv_sync", "ruff_format", "git_init",
               "gitignore", "git_add", "git_commit">>
Rank(step) == CHOOSE i \in 1..Len(StepOrder) : StepOrder[i] = step

\* the run changed nothing on disk and ran nothing
Untouched == log = <<>> /\ files = NoFiles /\ entry # "project"

\* C1: a file is written or a child is spawned only after path.exists() has
\* returned False and path.mkdir() has created the directory.
C1_EffectsOnlyInCreatedDirectory ==
    ((\E i \in 1..Len(log) : log[i] \in ChildSteps \cup FileSteps)
        \/ files # NoFiles)
    => /\ guard_saw \in {"absent", "dangling"}
       /\ mkdir_saw = "absent"
       /\ entry = "project"
       /\ log[1] = "mkdir"

C1_Witness ==
    /\ InLog("uv_init")
    /\ InLog("write_main")
    /\ InLog("write_toml")
    /\ InLog("gitignore")
    /\ foreign_events > 0

\* C2: a prompt that returns None ends the run at once with status 0, with
\* no directory, no file, no child, and no further prompt.
C2_CancelEndsRunUntouched ==
    cancelled_at # "none"
    => /\ pc = "done"
       /\ exit_code = 0
       /\ raised = "none"
       /\ Untouched
       /\ asked # <<>>
       /\ asked[Len(asked)] = cancelled_at
       /\ Times("mkdir") = 0

C2_Witness ==
    /\ cancelled_at = "install"
    /\ asked = <<"name", "framework", "linter", "type", "install">>
    /\ pc = "done"

\* C3 (as claimed): whenever an entry of any kind is at the project path when
\* the guard looks, the run ends with status 1 and has changed nothing.
C3_EntryAtPathEndsWithStatus1 ==
    (pc = "done" /\ guard_saw \in {"foreign", "dangling"})
    => exit_code = 1 /\ Untouched

\* C4 (as claimed): a run that gets through with the git flag set has done
\* the four git steps once each, whatever was answered to install-now; and
\* with the flag unset it has done none of them.
C4_GitStepsWheneverGitFlag ==
    (pc = "done" /\ summary)
    => /\ git => \A g \in GitSteps : Times(g) = 1
       /\ ~git => \A g \in GitSteps : Times(g) = 0

\* C5: the log of steps is strictly increasing in the fixed order (so each
\* step happens at most once and never before a step that precedes it), a
\* step is only there when the ones it depends on are, uv add runs only with
\* a non-empty runtime list and ruff format only when Ruff was chosen.
C5_PipelineOrder ==
    /\ \A i, j \in 1..Len(log) : i < j => Rank(log[i]) < Rank(log[j])
    /\ log # <<>> => log[1] = "mkdir"
    /\ \A i \in 1..Len(log) :
         log[i] \in {"write_main", "write_toml", "uv_add_dev", "git_init"}
         => /\ InLog("uv_init")
            /\ log[i] # "write_main" => InLog("write_main")
            /\ log[i] \in {"uv_add_dev", "git_init"} => InLog("write_toml")
    /\ InLog("uv_sync") => InLog("uv_add_dev")
    /\ InLog("gitignore") => InLog("git_init")
    /\ InLog("git_add") => InLog("gitignore")
    /\ InLog("git_commit") => InLog("git_add")
    /\ InLog("uv_add") => RuntimeDeps(framework) # <<>>
    /\ InLog("uv_add_dev") /\ RuntimeDeps(framework) # <<>> => InLog("uv_add")
    /\ InLog("ruff_format") => linter_choice = RuffLabel /\ InLog("uv_sync")
    /\ InLog("git_init") /\ linter_choice = RuffLabel => InLog("ruff_format")

C5_Witness ==
    log = <<"mkdir", "uv_init", "rm_hello", "write_main", "write_toml",
            "uv_add", "uv_add_dev", "uv_sync", "ruff_format", "git_init",
            "gitignore", "git_add", "git_commit">>

\* C6: when uv init returns non-zero or cannot be run, or writing main.py or
\* pyproject.toml fails, the run is over with a non-zero status, no later
\* step has been done, no summary is printed and the directory is still there.
C6_FatalSteps ==
    LET init_failed == /\ log # <<>>
                       /\ log[Len(log)] = "uv_init"
                       /\ last_status = "nonzero"
        at == IF failed_at \in {"write_main", "write_toml"}
              THEN failed_at ELSE "uv_init"
    IN  (init_failed \/ failed_at \in {"uv_init", "write_main", "write_toml"})
        => /\ pc = "done"
           /\ exit_code > 0
           /\ ~summary
           /\ entry = "project"
           /\ \A i \in 1..Len(log) : Rank(log[i]) <= Rank(at)
           /\ ~InLog("write_toml")
           /\ files.toml \in {Absent, UvToml}
           /\ at \in {"uv_init", "write_main"}
              => /\ ~InLog("write_main")
                 /\ files.main \in {Absent, UvMain}
           /\ at = "uv_init" => files = NoFiles
           /\ init_failed => raised = "CalledProcessError"

C6_Witness ==
    /\ log = <<"mkdir", "uv_init">>
    /\ last_status = "nonzero"
    /\ raised = "CalledProcessError"
    /\ pc = "done"

\* C7: a non-zero status of a child of steps 7-11 changes nothing: control
\* goes on to the next applicable step, and a run in which nothing raised
\* ends with the summary, status 0 and every applicable step done.
C7_UncheckedStatusIgnored ==
    /\ (log # <<>> /\ log[Len(log)] \in UncheckedSteps /\ last_status = "nonzero")
       => /\ rc_failed
          /\ raised = "none"
          /\ pc \in {NextStep(log[Len(log)]), "done"}
          /\ pc = "done" => summary /\ exit_code = 0
    /\ (rc_failed /\ pc = "done" /\ raised = "none")
       => /\ summary
          /\ exit_code = 0
          /\ should_install = PyTrue
          /\ InLog("uv_add") <=> RuntimeDeps(framework) # <<>>
          /\ InLog("uv_add_dev") /\ InLog("uv_sync")
          /\ InLog("ruff_format") <=> linter_choice = RuffLabel
          /\ \A g \in GitSteps : InLog(g) <=> git

C7_Witness ==
    /\ rc_failed
    /\ last_status = "nonzero"
    /\ log[Len(log)] = "git_commit"
    /\ InLog("ruff_format")
    /\ pc = "done"
    /\ summary
    /\ exit_code = 0

\* C10: once the guard has passed, an entry another process puts at the path
\* is never written into and no child runs in it: mkdir raises
\* FileExistsError, the run ends with a non-zero status and the entry stays.
C10_RaceEndsAtMkdir ==
    /\ entry \in {"foreign", "dangling"} => log = <<>> /\ files = NoFiles
    /\ mkdir_saw \in {"foreign", "dangling"}
       => /\ pc = "done"
          /\ raised = "FileExistsError"
          /\ exit_code > 0
          /\ entry = mkdir_saw
          /\ Untouched
          /\ ~summary

C10_Witness ==
    /\ guard_saw = "absent"
    /\ foreign_events > 0
    /\ mkdir_saw = "foreign"
    /\ pc = "done"

\* ------------------------------------------------ claims on the generators

Count(lines, l) == Cardinality({i \in 1..Len(lines) : lines[i] = l})
Index(lines, l) == CHOOSE i \in 1..Len(lines) : lines[i] = l

\* C8: for the prompt's labels and the six frameworks, the manifest never has
\* both [tool.ty] and [tool.mypy], has neither for the checker None, has
\* [tool.ruff] exactly when Ruff was chosen, and has one [tool.poe.tasks]
\* table whose only entry is the framework's dev command.
C8_TomlBlocks ==
    (gen_ret.toml # Absent /\ gen_call.framework \in Range(FrameworkChoices))
    => LET t == gen_ret.toml
           poe == Index(t, "[tool.poe.tasks]")
       IN  /\ ~(Count(t, "[tool.ty]") > 0 /\ Count(t, "[tool.mypy]") > 0)
           /\ Count(t, "[tool.ty]") <= 1 /\ Count(t, "[tool.mypy]") <= 1
           /\ gen_call.type_checker = NoneLabel
              => Count(t, "[tool.ty]") = 0 /\ Count(t, "[tool.mypy]") = 0
           /\ Count(t, "[tool.ruff]") = (IF gen_call.linter = RuffLabel THEN 1 ELSE 0)
           /\ Count(t, "[tool.poe.tasks]") = 1
           /\ Len(t) = poe + 2
           /\ t[poe + 1] = "dev = \"" \o dev_cmd(gen_call.framework) \o "\""
           /\ dev_cmd(gen_call.framework) # ""
           /\ t[poe + 2] = ""

C8_Witness ==
    /\ gen_ret.toml # Absent
    /\ gen_call.linter = RuffLabel
    /\ gen_call.type_checker = MypyLabel
    /\ gen_call.framework = FastAPI
    /\ Count(gen_ret.toml, "[tool.mypy]") = 1
    /\ Count(gen_ret.toml, "[tool.ruff]") = 1

BothSix ==
    /\ gen_ret.main # Absent
    /\ gen_call.framework \in Range(FrameworkChoices)
    /\ gen_call.other_framework \in Range(FrameworkChoices)

\* C9 (as claimed): two frameworks never share a template, and for one
\* framework two names give the same text exactly for FastAPI and Flask.
C9_FourTemplatesUseName ==
    BothSix
    => /\ gen_call.framework # gen_call.other_framework
          => gen_ret.main # gen_ret.main_other
       /\ (gen_call.framework = gen_call.other_framework
             /\ gen_call.name # gen_call.other)
          => (gen_ret.main = gen_ret.main_other
                <=> gen_call.framework \in {FastAPI, Flask})

\* C9 (amended): two frameworks never share a template; the text depends on
\* the name exactly for Vanilla and NiceGUI, and is the same for every name
\* for FastAPI, Flask, Streamlit and Typer.
C9_TwoTemplatesUseName ==
    /\ BothSix
       => /\ gen_call.framework # gen_call.other_framework
             => gen_ret.main # gen_ret.main_other
          /\ (gen_call.framework = gen_call.other_framework
                /\ gen_call.name # gen_call.other)
             => (gen_ret.main # gen_ret.main_other
                   <=> gen_call.framework \in {Vanilla, NiceGUI})

C9_Witness ==
    /\ BothSix
    /\ gen_call.framework = Typer
    /\ gen_call.other_framework = Typer
    /\ gen_call.name # gen_call.other
    /\ gen_ret.main = gen_ret.main_other

====
